---- MODULE Spec2Model ----
(***************************************************************************)
(* Certificate-Auth: the LSB steganography codec (stegoService.js), the    *)
(* issuance and verification routes (routes/issue.js, routes/verify.js)    *)
(* and their collaborators (cryptoService, blockchainService).             *)
(*                                                                         *)
(* Abstractions, all stated where they are made:                           *)
(*  - a JSON text is a sequence of UTF-16 code units (what charCodeAt and  *)
(*    String.length see).  JSON.stringify/JSON.parse are modelled on an    *)
(*    abbreviated text: every fixed run of punctuation and key names is    *)
(*    one ASCII character, every hex/base64 value is one ASCII character,  *)
(*    and issuerId (free text from the request) is kept character by       *)
(*    character.  Bit widths (8 per character, 32 prefix, 16 marker) are   *)
(*    the code's.                                                          *)
(*  - an image file is its decoded RGBA buffer (PNG is lossless) plus a    *)
(*    flag telling whether the container decodes at all.  Carriers are     *)
(*    opaque (alpha 255).                                                  *)
(***************************************************************************)
EXTENDS Integers, Sequences, FiniteSets, TLC

VARIABLES codec, embed, keys, chain, ledger, sha, issued, disk, ires, vres

vars == <<codec, embed, keys, chain, ledger, sha, issued, disk, ires, vres>>
server == <<keys, chain, ledger, sha, issued, disk, ires, vres>>

Min(S) == CHOOSE n \in S : \A m \in S : n <= m

(***************************************************************************)
(* Bit strings: sequences over {0, 1}.                                     *)
(***************************************************************************)
Zeros(n) == [i \in 1..n |-> 0]

\* Number.prototype.toString(2)
RECURSIVE toString2(_)
toString2(num) ==
  IF num < 2 THEN <<num>> ELSE Append(toString2(num \div 2), num % 2)

\* stegoService.numberToBinary: padStart pads, it never truncates
numberToBinary(num, length) ==
  LET b == toString2(num)
  IN  IF Len(b) >= length THEN b ELSE Zeros(length - Len(b)) \o b

\* stegoService.stringToBinary: one padStart(8) group per UTF-16 code unit
RECURSIVE stringToBinary(_)
stringToBinary(str) ==
  IF str = <<>> THEN <<>>
  ELSE numberToBinary(Head(str), 8) \o stringToBinary(Tail(str))

\* parseInt(binary, 2).  Values of 2^20 and more are reported as 2^20: the
\* only use of a large value is as a slice bound far beyond any buffer.
Saturation == 2 ^ 20

RECURSIVE parseInt2(_, _)
parseInt2(binary, acc) ==
  IF binary = <<>> THEN acc
  ELSE LET v == 2 * acc + Head(binary)
       IN  parseInt2(Tail(binary), IF v > Saturation THEN Saturation ELSE v)

\* stegoService.binaryToNumber
binaryToNumber(binary) == parseInt2(binary, 0)

\* stegoService.binaryToString: 8-bit groups, the last one possibly shorter
binaryToString(binary) ==
  LET n == (Len(binary) + 7) \div 8
  IN  [k \in 1..n |->
         binaryToNumber(SubSeq(binary, 8 * k - 7,
                               IF 8 * k <= Len(binary) THEN 8 * k ELSE Len(binary)))]

\* String.prototype.slice(from, to) on 0-based offsets, to clipped to the length
slice(s, from, to) ==
  SubSeq(s, from + 1, IF to <= Len(s) THEN to ELSE Len(s))

\* stegoService.js:65 '1111111111111110'
endMarker == <<1, 1, 1, 1, 1, 1, 1, 1, 1, 1, 1, 1, 1, 1, 1, 0>>

(***************************************************************************)
(* The abbreviated JSON text.                                              *)
(***************************************************************************)
ChPlain == 80
ChNoise == 78
ChReal == 114
ChDecoy == 100
ChOther == 88
ChQuote == 34
ChBackslash == 92
ChSpace == 32
ChZero == 48
FieldMax == 63

FieldChar(v) == ChZero + v
IsFieldChar(c) == c >= ChZero /\ c <= ChZero + FieldMax

\* the payload object of issue.js:91-98, in its key order
DataWire(d) ==
  <<FieldChar(d.transactionHash), FieldChar(d.signature),
    FieldChar(d.certificateHash), FieldChar(d.combinedHash)>>
  \o d.issuerId \o <<ChQuote, FieldChar(d.timestamp)>>

EntryWire(e) ==
  IF e.type = "real" THEN <<ChReal>> \o DataWire(e.data)
  ELSE <<ChDecoy, FieldChar(e.fakeHash), FieldChar(e.fakeSignature),
         FieldChar(e.fakeIssuer)>>

RECURSIVE EntriesWire(_)
EntriesWire(es) ==
  IF es = <<>> THEN <<>> ELSE EntryWire(Head(es)) \o EntriesWire(Tail(es))

\* JSON.stringify(payload)
JSON_stringify(payload) ==
  IF payload.mode = "plain" THEN <<ChPlain>> \o DataWire(payload.data)
  ELSE IF payload.mode = "noise" THEN <<ChNoise>> \o EntriesWire(payload.entries)
  ELSE <<ChOther>>

ParseFail == [ok |-> FALSE]

\* one payload object starting at position p; a raw control character, an
\* unterminated string or a missing member is a SyntaxError
parseData(s, p) ==
  LET quotes == {q \in (p + 4)..Len(s) : s[q] = ChQuote}
  IN  IF p + 3 > Len(s) \/ quotes = {} THEN ParseFail
      ELSE LET q == Min(quotes)
           IN  IF \/ q + 1 > Len(s)
                  \/ \E k \in p..(p + 3) : ~IsFieldChar(s[k])
                  \/ ~IsFieldChar(s[q + 1])
                  \/ \E k \in (p + 4)..(q - 1) : s[k] < ChSpace \/ s[k] = ChBackslash
               THEN ParseFail
               ELSE [ok |-> TRUE, next |-> q + 2,
                     val |-> [transactionHash |-> s[p] - ChZero,
                              signature |-> s[p + 1] - ChZero,
                              certificateHash |-> s[p + 2] - ChZero,
                              combinedHash |-> s[p + 3] - ChZero,
                              issuerId |-> SubSeq(s, p + 4, q - 1),
                              timestamp |-> s[q + 1] - ChZero]]

RECURSIVE parseEntries(_, _)
parseEntries(s, p) ==
  IF p > Len(s) THEN [ok |-> TRUE, val |-> <<>>]
  ELSE IF s[p] = ChReal THEN
    LET d == parseData(s, p + 1)
    IN  IF ~d.ok THEN ParseFail
        ELSE LET rest == parseEntries(s, d.next)
             IN  IF ~rest.ok THEN ParseFail
                 ELSE [ok |-> TRUE,
                       val |-> <<[type |-> "real", data |-> d.val]>> \o rest.val]
  ELSE IF s[p] = ChDecoy THEN
    IF p + 3 > Len(s) \/ \E k \in (p + 1)..(p + 3) : ~IsFieldChar(s[k]) THEN ParseFail
    ELSE LET rest == parseEntries(s, p + 4)
         IN  IF ~rest.ok THEN ParseFail
             ELSE [ok |-> TRUE,
                   val |-> <<[type |-> "decoy", fakeHash |-> s[p + 1] - ChZero,
                              fakeSignature |-> s[p + 2] - ChZero,
                              fakeIssuer |-> s[p + 3] - ChZero]>> \o rest.val]
  ELSE ParseFail

\* JSON.parse(dataString): [ok |-> FALSE] is a thrown SyntaxError
JSON_parse(s) ==
  IF s = <<>> THEN ParseFail
  ELSE IF s[1] = ChPlain THEN
    LET d == parseData(s, 2)
    IN  IF d.ok /\ d.next = Len(s) + 1
        THEN [ok |-> TRUE, val |-> [mode |-> "plain", data |-> d.val]]
        ELSE ParseFail
  ELSE IF s[1] = ChNoise THEN
    LET es == parseEntries(s, 2)
    IN  IF es.ok THEN [ok |-> TRUE, val |-> [mode |-> "noise", entries |-> es.val]]
        ELSE ParseFail
  ELSE IF s[1] = ChOther /\ Len(s) = 1 THEN [ok |-> TRUE, val |-> [mode |-> "other"]]
  ELSE ParseFail

(***************************************************************************)
(* Image files and the embedding engine, stegoService.embedData.           *)
(***************************************************************************)
\* an opaque carrier of pc pixels whose colour channels all hold v
Carrier(pc, v) ==
  [readable |-> TRUE,
   pixels |-> [k \in 1..(4 * pc) |-> IF k % 4 = 0 THEN 255 ELSE v]]

\* a file whose container does not decode: loadImage rejects
CorruptFile == [readable |-> FALSE, pixels |-> <<>>]

pixelCount(file) == Len(file.pixels) \div 4

DefaultDecoyCount == 5

\* one decoy entry (stegoService.js:41-46); seed stands for the random bytes
Decoy(seed, i) ==
  [type |-> "decoy",
   fakeHash |-> (seed + i) % (FieldMax + 1),
   fakeSignature |-> (seed + 2 * i + 1) % (FieldMax + 1),
   fakeIssuer |-> (seed + 3 * i + 2) % (FieldMax + 1)]

\* stegoService.js:36-57.  options.decoyCount = 0 also stands for an absent
\* decoyCount: (options.decoyCount || 5) treats both alike.
buildPayload(data, options, seed) ==
  IF options.noiseDefense
  THEN LET count == IF options.decoyCount # 0 THEN options.decoyCount
                    ELSE DefaultDecoyCount
       IN  [mode |-> "noise",
            entries |-> <<[type |-> "real", data |-> data]>>
                        \o [i \in 1..count |-> Decoy(seed, i)]]
  ELSE [mode |-> "plain", data |-> data]

\* stegoService.js:64-66: lengthPrefix + binaryData + endMarker
fullBinaryData(dataString) ==
  numberToBinary(Len(dataString), 32) \o stringToBinary(dataString) \o endMarker

\* a variant whose loop walks every channel of the buffer, alpha included
writeLSB_everyChannel(pixels, full) ==
  [k \in 1..Len(pixels) |->
     IF k <= Len(full) THEN (pixels[k] - (pixels[k] % 2)) + full[k] ELSE pixels[k]]

\* stegoService.js:73-80: bit n goes to colour channel (n-1) % 3 of pixel
\* (n-1) \div 3; the loops end at the last pixel or the last bit
writeLSB(pixels, full) ==
  [k \in 1..Len(pixels) |->
     LET n == 3 * ((k - 1) \div 4) + ((k - 1) % 4) + 1
     IN  IF (k - 1) % 4 < 3 /\ n <= Len(full)
         THEN (pixels[k] - (pixels[k] % 2)) + full[n]
         ELSE pixels[k]]

EmbedFailed == [ok |-> FALSE, file |-> CorruptFile]

\* stegoService.embedData: [ok |-> FALSE] is the rethrown 'Failed to embed
\* data via steganography'; otherwise file is the PNG written to outputPath
embedData(file, data, options, seed) ==
  IF ~file.readable THEN EmbedFailed
  ELSE LET full == fullBinaryData(JSON_stringify(buildPayload(data, options, seed)))
       IN  IF Len(full) > Len(file.pixels) * 3 THEN EmbedFailed
           ELSE [ok |-> TRUE,
                 file |-> [readable |-> TRUE, pixels |-> writeLSB(file.pixels, full)]]

(***************************************************************************)
(* The extraction engine, stegoService.extractData.                        *)
(***************************************************************************)
\* the bits read by stegoService.js:118-120, in reading order
pixelBits(pixels) ==
  [n \in 1..(3 * (Len(pixels) \div 4)) |->
     pixels[4 * ((n - 1) \div 3) + ((n - 1) % 3) + 1] % 2]

\* stegoService.js:123-129: the lengths at which last16 === endMarker
markerEnds(bits) ==
  {n \in 16..Len(bits) :
     bits[n] = 0 /\ \A k \in 1..15 : bits[n - k] = 1}

Null == [kind |-> "null"]

\* a variant that reads the whole carrier and cuts at the last marker
scan_lastMarker(bits) ==
  LET ends == markerEnds(bits)
  IN  IF ends = {} THEN [endMarkerFound |-> FALSE, read |-> Len(bits)]
      ELSE [endMarkerFound |-> TRUE,
            read |-> CHOOSE e \in ends : \A m \in ends : m <= e]

\* stegoService.js:115-132, the scan loop: read is the number of bits
\* appended to binaryData when the loop ends.  last16 is tested from the
\* 16th bit on and the first match ends both loops; without a match every
\* colour channel is read.
scan(bits) ==
  LET ends == markerEnds(bits)
  IN  IF ends = {} THEN [endMarkerFound |-> FALSE, read |-> Len(bits)]
      ELSE [endMarkerFound |-> TRUE, read |-> Min(ends)]

\* a variant that reads the entry at the index embedData writes the real one to
selectResult_firstEntry(extracted) ==
  IF extracted.mode = "noise" THEN
    IF extracted.entries # <<>> /\ extracted.entries[1].type = "real"
    THEN [kind |-> "data", data |-> extracted.entries[1].data]
    ELSE Null
  ELSE IF extracted.mode = "plain" THEN [kind |-> "data", data |-> extracted.data]
  ELSE [kind |-> "other", value |-> extracted]

\* stegoService.js:147-155
selectResult(extracted) ==
  IF extracted.mode = "noise" THEN
    LET real == {i \in 1..Len(extracted.entries) : extracted.entries[i].type = "real"}
    IN  IF real = {} THEN Null
        ELSE [kind |-> "data", data |-> extracted.entries[Min(real)].data]
  ELSE IF extracted.mode = "plain" THEN [kind |-> "data", data |-> extracted.data]
  ELSE [kind |-> "other", value |-> extracted]

\* stegoService.js:114-146: the envelope JSON.parse returns, or a failure
\* (return null at line 135, or a SyntaxError caught at line 159)
decodeEnvelope(file) ==
  IF ~file.readable THEN ParseFail
  ELSE LET bits == pixelBits(file.pixels)
           found == scan(bits)
       IN  IF ~found.endMarkerFound \/ found.read - 16 < 32 THEN ParseFail
           ELSE LET binaryData == SubSeq(bits, 1, found.read - 16)
                    dataLength == binaryToNumber(slice(binaryData, 0, 32))
                    dataBinary == slice(binaryData, 32, 32 + dataLength * 8)
                IN  JSON_parse(binaryToString(dataBinary))

\* stegoService.extractData
extractData(file) ==
  LET extracted == decodeEnvelope(file)
  IN  IF extracted.ok THEN selectResult(extracted.val) ELSE Null

(***************************************************************************)
(* The codec on its own: one carrier is embedded into (by embedData, or by *)
(* any other writer of the same frame format, since an uploaded file is    *)
(* arbitrary) and then read back by extractData.                           *)
(***************************************************************************)
CarrierSizes == {37, 40, 96, 260}
CarrierFills == {200, 201}
DecoyCounts == {0, 1, 5, 20}
IssuerIds == {<<65>>, <<65, 66>>, <<65, 256>>, <<255, 254>>}

\* outcomes of crypto.randomBytes / Math.random in one embedData call
Seeds == {0, 11}

PayloadOf(tx, sig, ch, cb, issuer, ts) ==
  [transactionHash |-> tx, signature |-> sig, certificateHash |-> ch,
   combinedHash |-> cb, issuerId |-> issuer, timestamp |-> ts]

CodecData == {PayloadOf(1, 2, 3, 4, i, 5) : i \in IssuerIds}

NoData == PayloadOf(0, 0, 0, 0, <<>>, 0)
NoOptions == [noiseDefense |-> FALSE, decoyCount |-> 0]
NoEnvelope == [mode |-> "none"]

\* a noise envelope of n decoys with the real entry at 0-based index pos
NoiseAt(n, pos, d) ==
  [mode |-> "noise",
   entries |-> [i \in 1..(n + 1) |->
                  IF i = pos + 1 THEN [type |-> "real", data |-> d]
                  ELSE Decoy(7, i)]]

\* envelopes no embedData call builds, which a crafted upload may carry
CraftedEnvelopes ==
  LET d1 == PayloadOf(1, 2, 3, 4, <<65>>, 5)
      d2 == PayloadOf(6, 7, 8, 9, <<66>>, 5)
      r1 == [type |-> "real", data |-> d1]
      r2 == [type |-> "real", data |-> d2]
  IN  UNION {{NoiseAt(n, pos, d1) : pos \in 0..n} : n \in DecoyCounts}
      \cup {[mode |-> "noise", entries |-> es] :
              es \in {<<>>, <<Decoy(7, 1)>>, <<r1, r2>>, <<r2, r1>>,
                      <<Decoy(7, 1), r1, Decoy(7, 2), r2>>}}
      \cup {[mode |-> "other"], [mode |-> "plain", data |-> d2]}

NoScan == [endMarkerFound |-> FALSE, read |-> 0]

\* bit strings no embedData call writes, which an uploaded file may hold in
\* its first colour channels: nothing, a marker before a frame (ending at
\* bit 16, at bit 36), a frame whose prefix announces more characters than
\* follow, a frame followed by a second marker
RawFrames ==
  LET text == JSON_stringify([mode |-> "plain",
                              data |-> PayloadOf(1, 2, 3, 4, <<65>>, 5)])
      frame == fullBinaryData(text)
  IN  {<<>>,
       endMarker \o frame,
       Zeros(20) \o endMarker \o frame,
       numberToBinary(Len(text) + 3, 32) \o stringToBinary(text) \o endMarker,
       numberToBinary(Len(text) + 1, 32) \o stringToBinary(text) \o endMarker,
       frame \o Zeros(8) \o endMarker}

CodecStart ==
  codec = [stage |-> "start", by |-> "none", carrier |-> CorruptFile, data |-> NoData,
           options |-> NoOptions, envelope |-> NoEnvelope, ok |-> FALSE,
           out |-> CorruptFile, scan |-> NoScan, result |-> Null]

\* one embedData call
CodecEmbed ==
  /\ codec.stage = "start"
  /\ \E pc \in CarrierSizes, v \in CarrierFills, d \in CodecData,
        nd \in BOOLEAN, n \in DecoyCounts, seed \in Seeds :
       LET carrier == Carrier(pc, v)
           options == [noiseDefense |-> nd, decoyCount |-> n]
           r == embedData(carrier, d, options, seed)
       IN  /\ nd \/ (n = 0 /\ seed = 0)
           /\ codec' = [stage |-> "embedded", by |-> "embedData",
                        carrier |-> carrier, data |-> d,
                        options |-> options,
                        envelope |-> buildPayload(d, options, seed),
                        ok |-> r.ok, out |-> r.file, scan |-> NoScan,
                        result |-> Null]
  /\ UNCHANGED <<embed, server>>

\* a file written by some other embedder of the same frame format
CodecCraft ==
  /\ codec.stage = "start"
  /\ \E e \in CraftedEnvelopes, v \in CarrierFills :
       LET full == fullBinaryData(JSON_stringify(e))
           carrier == Carrier((Len(full) + 2) \div 3, v)
       IN  codec' = [stage |-> "embedded", by |-> "crafted",
                     carrier |-> carrier, data |-> NoData,
                     options |-> NoOptions, envelope |-> e, ok |-> TRUE,
                     out |-> [readable |-> TRUE,
                              pixels |-> writeLSB(carrier.pixels, full)],
                     scan |-> NoScan, result |-> Null]
  /\ UNCHANGED <<embed, server>>

\* a file whose first colour channels hold one of the raw bit strings
CodecCraftRaw ==
  /\ codec.stage = "start"
  /\ \E raw \in RawFrames, v \in CarrierFills :
       LET carrier == Carrier((Len(raw) + 2) \div 3 + 6, v)
       IN  codec' = [stage |-> "embedded", by |-> "raw",
                     carrier |-> carrier, data |-> NoData,
                     options |-> NoOptions, envelope |-> NoEnvelope, ok |-> TRUE,
                     out |-> [readable |-> TRUE,
                              pixels |-> writeLSB(carrier.pixels, raw)],
                     scan |-> NoScan, result |-> Null]
  /\ UNCHANGED <<embed, server>>

\* one extractData call on the emitted file
CodecExtract ==
  /\ codec.stage = "embedded"
  /\ codec.ok
  /\ codec' = [codec EXCEPT !.stage = "extracted",
                             !.scan = scan(pixelBits(codec.out.pixels)),
                             !.result = extractData(codec.out)]
  /\ UNCHANGED <<embed, server>>


(***************************************************************************)
(* Collaborators of the routes.                                            *)
(***************************************************************************)
MaxIssue == 1
MaxKeys == 2

Undefined == 0 - 1
NoKey == 0
SigBase == 8

\* utils/hash generateHash: SHA-256 as a collision-free numbering, in hex a
\* single field character.  table lists the contents whose digest has been
\* published (embedded or anchored); a content not in it hashes to a value
\* that no text written so far holds.
FileContent(file) == [kind |-> "file", file |-> file, d |-> 0, s |-> 0]
CatContent(d, s) == [kind |-> "cat", file |-> CorruptFile, d |-> d, s |-> s]

Unpublished == FieldMax + 1

digestOf(table, content) ==
  IF \E i \in 1..Len(table) : table[i] = content
  THEN CHOOSE i \in 1..Len(table) : table[i] = content
  ELSE Unpublished

remember(table, content) ==
  IF \E i \in 1..Len(table) : table[i] = content THEN table
  ELSE Append(table, content)

generateHash(table, file) == digestOf(table, FileContent(file))

\* utils/hash generateCombinedHash(certificateHash, signature), imported by
\* issue.js:8; its body is not in the sources
generateCombinedHash(table, certificateHash, signature) ==
  digestOf(table, CatContent(certificateHash, signature))

\* the issuers a key file can exist for
IssuerNames == {<<65>>}

\* cryptoService.signData: RSA-SHA256 is deterministic in (data, key)
signData(data, issuerId, ks) ==
  IF issuerId \notin DOMAIN ks \/ ks[issuerId] = NoKey
  THEN [ok |-> FALSE, signature |-> Undefined]
  ELSE [ok |-> TRUE, signature |-> data * SigBase + ks[issuerId]]

\* a variant that accepts any signature of the issuer, whatever was signed
verifySignature_anyData(data, signature, issuerId, ks) ==
  IF issuerId \notin DOMAIN ks \/ ks[issuerId] = NoKey THEN FALSE
  ELSE IF signature = Undefined THEN FALSE
  ELSE signature % SigBase = ks[issuerId]

\* cryptoService.verifySignature, its .valid: a failed key lookup and a
\* signature that is no string both throw inside the try and give false
verifySignature(data, signature, issuerId, ks) ==
  IF issuerId \notin DOMAIN ks \/ ks[issuerId] = NoKey THEN FALSE
  ELSE IF signature = Undefined THEN FALSE
  ELSE signature = data * SigBase + ks[issuerId]

\* blockchainService.storeHash with storeHashOnChain and
\* simulateBlockchainStorage; throws: the contract call or sendTransaction
\* rejects.  The registry contract (ABI at config/blockchain.js:24-29) keeps
\* the hashes stored in it.
storeHash(hash, issuerId, cfg, l, throws) ==
  LET tx == l.nextTx
      simulated == [l EXCEPT !.nextTx = tx + 1]
      stored ==
        IF cfg.contract
        THEN IF throws THEN simulated
             ELSE [simulated EXCEPT !.registry = @ \cup {<<tx, hash>>}]
        ELSE IF ~cfg.wallet \/ throws THEN simulated
             ELSE [simulated EXCEPT !.txData = @ \cup {<<tx, hash>>}]
  IN  [transactionHash |-> tx, ledger |-> stored]

\* blockchainService.simulateBlockchainVerification, its .valid
simulateBlockchainVerification(transactionHash, expectedHash) == TRUE

\* blockchainService.verifyHash, its .valid
verifyHash(transactionHash, expectedHash, cfg, l, throws) ==
  IF ~cfg.contract THEN simulateBlockchainVerification(transactionHash, expectedHash)
  ELSE IF throws THEN simulateBlockchainVerification(transactionHash, expectedHash)
  ELSE expectedHash \in {entry[2] : entry \in l.registry}

(***************************************************************************)
(* routes/verify.js, POST /certificate.                                    *)
(***************************************************************************)
UndefinedString == <<>>

\* embeddedData.<f>: a member the recovered object does not have is undefined
fieldOf(embeddedData, f) ==
  IF embeddedData.kind = "data" THEN embeddedData.data[f]
  ELSE IF f = "issuerId" THEN UndefinedString
  ELSE Undefined

NoCall == <<>>

\* a variant whose overall result needs one passing check only
verdict_eitherCheck(certificateHash, embeddedData, ks, cfg, l, throws) ==
  LET transactionHash == fieldOf(embeddedData, "transactionHash")
      signature == fieldOf(embeddedData, "signature")
      issuerId == fieldOf(embeddedData, "issuerId")
      blockchainVerification ==
        verifyHash(transactionHash, certificateHash, cfg, l, throws)
      signatureVerification ==
        verifySignature(certificateHash, signature, issuerId, ks)
      isValid == blockchainVerification \/ signatureVerification
  IN  [status |-> 200, success |-> TRUE, valid |-> isValid,
       hasEmbeddedData |-> TRUE,
       blockchainVerified |-> blockchainVerification,
       signatureVerified |-> signatureVerification,
       calls |-> <<"generateHash", "extractData", "verifyHash", "verifySignature">>,
       verifyHashArgs |-> <<transactionHash, certificateHash>>,
       verifySignatureArgs |-> <<certificateHash, signature, issuerId>>]

\* a variant that checks the digest claimed inside the recovered payload
verdict_claimedHash(certificateHash, embeddedData, ks, cfg, l, throws) ==
  LET transactionHash == fieldOf(embeddedData, "transactionHash")
      signature == fieldOf(embeddedData, "signature")
      issuerId == fieldOf(embeddedData, "issuerId")
      claimed == fieldOf(embeddedData, "certificateHash")
      blockchainVerification ==
        verifyHash(transactionHash, claimed, cfg, l, throws)
      signatureVerification ==
        verifySignature(claimed, signature, issuerId, ks)
      isValid == blockchainVerification /\ signatureVerification
  IN  [status |-> 200, success |-> TRUE, valid |-> isValid,
       hasEmbeddedData |-> TRUE,
       blockchainVerified |-> blockchainVerification,
       signatureVerified |-> signatureVerification,
       calls |-> <<"generateHash", "extractData", "verifyHash", "verifySignature">>,
       verifyHashArgs |-> <<transactionHash, claimed>>,
       verifySignatureArgs |-> <<claimed, signature, issuerId>>]

\* a variant that skips the signature check after a failed anchor check
verdict_shortCircuit(certificateHash, embeddedData, ks, cfg, l, throws) ==
  LET transactionHash == fieldOf(embeddedData, "transactionHash")
      signature == fieldOf(embeddedData, "signature")
      issuerId == fieldOf(embeddedData, "issuerId")
      blockchainVerification ==
        verifyHash(transactionHash, certificateHash, cfg, l, throws)
      signatureVerification ==
        verifySignature(certificateHash, signature, issuerId, ks)
  IN  [status |-> 200, success |-> TRUE,
       valid |-> blockchainVerification /\ signatureVerification,
       hasEmbeddedData |-> TRUE,
       blockchainVerified |-> blockchainVerification,
       signatureVerified |-> blockchainVerification /\ signatureVerification,
       calls |-> IF blockchainVerification
                 THEN <<"generateHash", "extractData", "verifyHash", "verifySignature">>
                 ELSE <<"generateHash", "extractData", "verifyHash">>,
       verifyHashArgs |-> <<transactionHash, certificateHash>>,
       verifySignatureArgs |-> IF blockchainVerification
                               THEN <<certificateHash, signature, issuerId>>
                               ELSE NoCall]

\* verify.js:74-108: both checks and the response built from them
verdict(certificateHash, embeddedData, ks, cfg, l, throws) ==
  LET transactionHash == fieldOf(embeddedData, "transactionHash")
      signature == fieldOf(embeddedData, "signature")
      issuerId == fieldOf(embeddedData, "issuerId")
      blockchainVerification ==
        verifyHash(transactionHash, certificateHash, cfg, l, throws)
      signatureVerification ==
        verifySignature(certificateHash, signature, issuerId, ks)
      isValid == blockchainVerification /\ signatureVerification
  IN  [status |-> 200, success |-> TRUE, valid |-> isValid,
       hasEmbeddedData |-> TRUE,
       blockchainVerified |-> blockchainVerification,
       signatureVerified |-> signatureVerification,
       calls |-> <<"generateHash", "extractData", "verifyHash", "verifySignature">>,
       verifyHashArgs |-> <<transactionHash, certificateHash>>,
       verifySignatureArgs |-> <<certificateHash, signature, issuerId>>]

\* verify.js:60-72
noEmbeddedData ==
  [status |-> 200, success |-> FALSE, valid |-> FALSE, hasEmbeddedData |-> FALSE,
   blockchainVerified |-> FALSE, signatureVerified |-> FALSE,
   calls |-> <<"generateHash", "extractData">>,
   verifyHashArgs |-> NoCall, verifySignatureArgs |-> NoCall]

\* verify.js:46-50; valid and the check results are absent from this body
noCertificateFile ==
  [status |-> 400, success |-> FALSE, valid |-> FALSE, hasEmbeddedData |-> FALSE,
   blockchainVerified |-> FALSE, signatureVerified |-> FALSE,
   calls |-> <<>>, verifyHashArgs |-> NoCall, verifySignatureArgs |-> NoCall]

\* a variant without the early return of verify.js:60-72
verifyCertificate_noEarlyReturn(present, file, table, ks, cfg, l, throws) ==
  IF ~present THEN noCertificateFile
  ELSE verdict(generateHash(table, file), extractData(file), ks, cfg, l, throws)

\* verify.js:42-117, the response for one request
verifyCertificate(present, file, table, ks, cfg, l, throws) ==
  IF ~present THEN noCertificateFile
  ELSE LET certificateHash == generateHash(table, file)
           embeddedData == extractData(file)
       IN  IF embeddedData = Null THEN noEmbeddedData
           ELSE verdict(certificateHash, embeddedData, ks, cfg, l, throws)

\* no response was sent
Unanswered == [noCertificateFile EXCEPT !.status = 0]

\* a variant whose catch logs the error and sends nothing
serverError_unanswered == Unanswered

\* verify.js:110-116: the catch answers 500
serverError ==
  [status |-> 500, success |-> FALSE, valid |-> FALSE, hasEmbeddedData |-> FALSE,
   blockchainVerified |-> FALSE, signatureVerified |-> FALSE,
   calls |-> <<"generateHash">>, verifyHashArgs |-> NoCall,
   verifySignatureArgs |-> NoCall]

\* verify.js:43-116, the try block and its catch; hashFails: generateHash
\* rejects (the stored upload cannot be read); every later stage catches
\* its own errors
tryVerifyCertificate(present, file, table, ks, cfg, l, throws, hashFails) ==
  IF present /\ hashFails THEN serverError
  ELSE verifyCertificate(present, file, table, ks, cfg, l, throws)

(***************************************************************************)
(* The server: key store, chain configuration, ledger, and the requests.   *)
(* ires and vres hold the response of the request being answered; Respond  *)
(* sends it and ends the request.  Requests are taken one at a time.       *)
(***************************************************************************)
IssueCarriers == {Carrier(40, 200), Carrier(96, 200)}

NoResponse ==
  [status |-> 0, success |-> FALSE, payload |-> NoData, noiseDefense |-> FALSE,
   calls |-> <<>>, present |-> FALSE, missing |-> {}]

NoVerification ==
  [stage |-> "none", response |-> Unanswered, present |-> FALSE,
   upload |-> CorruptFile, stored |-> CorruptFile, certificateHash |-> 0,
   embeddedData |-> Null, throws |-> FALSE, hashFails |-> FALSE]

ServerStart ==
  /\ keys = [of |-> [i \in IssuerNames |-> NoKey], next |-> 1]
  /\ ledger = [nextTx |-> 1, txData |-> {}, registry |-> {}]
  /\ sha = <<>>
  /\ issued = <<>>
  /\ disk = <<>>
  /\ ires = NoResponse
  /\ vres = NoVerification

\* config/blockchain.js:47-74: a contract only with a wallet
ChainConfigs ==
  {[wallet |-> w, contract |-> c] : w \in BOOLEAN, c \in BOOLEAN} \
    {[wallet |-> FALSE, contract |-> TRUE]}

\* issue.js:167-194 with cryptoService.generateKeyPair: a fresh pair
\* overwrites <issuerId>.json
Idle == ires = NoResponse /\ vres = NoVerification

GenerateKeyPair ==
  /\ Idle
  /\ keys.next <= MaxKeys
  /\ \E issuerId \in IssuerNames :
       keys' = [of |-> [keys.of EXCEPT ![issuerId] = keys.next],
                next |-> keys.next + 1]
  /\ UNCHANGED <<codec, embed, chain, ledger, sha, issued, disk, ires, vres>>

\* issue.js:55: the fields a request must carry
RequiredFields == {"issuerId", "issuerName", "recipientName", "certificateType"}

\* issue.js:19-27, multer diskStorage: where the upload of a request is kept
uploadPath(now) == <<"uploads/certificates", now>>

\* a variant that writes the result over the file it read
outputPath_inPlace(imagePath, now) == imagePath

\* stegoService.js:85: path.join(this.tempPath, `embedded_${Date.now()}.png`)
outputPath(imagePath, now) == <<"temp", now>>

\* fs.writeFileSync(path, buffer)
writeFileSync(d, path, file) ==
  [q \in DOMAIN d \cup {path} |-> IF q = path THEN file ELSE d[q]]

\* a variant that goes on without the checks of issue.js:49-59
issueCertificate_noValidation(present, missing, file, issuerId, noiseDefense, throws, now, table, ks, cfg, l, d) ==
  [response |-> [status |-> 500, success |-> FALSE, payload |-> NoData,
                 noiseDefense |-> FALSE,
                 calls |-> <<"generateHash", "signData">>],
   sha |-> table, ledger |-> l, disk |-> d, requests |-> <<>>]

\* issue.js:43-144: the response of one request and what it leaves behind.
\* disk keeps the files of the requests that reached the embedding.
issueCertificate(present, missing, file, issuerId, noiseDefense, throws, now, table, ks, cfg, l, d) ==
  LET imagePath == uploadPath(now)
      d1 == writeFileSync(d, imagePath, file)
      sha1 == remember(table, FileContent(d1[imagePath]))
      certificateHash == generateHash(sha1, d1[imagePath])
      signed == signData(certificateHash, issuerId, ks)
      sha2 == remember(sha1, CatContent(certificateHash, signed.signature))
      combinedHash == generateCombinedHash(sha2, certificateHash, signed.signature)
      blockchainResult == storeHash(combinedHash, issuerId, cfg, l, throws)
      payload == PayloadOf(blockchainResult.transactionHash, signed.signature,
                           certificateHash, combinedHash, issuerId, now)
      e == embedData(d1[imagePath], payload,
                     [noiseDefense |-> noiseDefense, decoyCount |-> 0], 0)
      embeddedFilePath == outputPath(imagePath, now)
      d2 == IF e.ok THEN writeFileSync(d1, embeddedFilePath, e.file) ELSE d1
      request == [carrier |-> file, payload |-> payload,
                  noiseDefense |-> noiseDefense, ok |-> e.ok, out |-> e.file,
                  path |-> imagePath, outputPath |-> embeddedFilePath]
  IN  IF ~present \/ missing # {}
      THEN [response |-> [status |-> 400, success |-> FALSE, payload |-> NoData,
                          noiseDefense |-> FALSE, calls |-> <<>>],
            sha |-> table, ledger |-> l, disk |-> d, requests |-> <<>>]
      ELSE IF ~signed.ok
      THEN [response |-> [status |-> 500, success |-> FALSE, payload |-> NoData,
                          noiseDefense |-> FALSE,
                          calls |-> <<"generateHash", "signData">>],
            sha |-> table, ledger |-> l, disk |-> d, requests |-> <<>>]
      ELSE [response |-> [status |-> IF e.ok THEN 200 ELSE 500, success |-> e.ok,
                          payload |-> payload, noiseDefense |-> noiseDefense,
                          calls |-> <<"generateHash", "signData", "generateCombinedHash",
                                      "storeHash", "embedData">>],
            sha |-> sha2, ledger |-> blockchainResult.ledger, disk |-> d2,
            requests |-> <<request>>]

\* the bodies tried: complete, one field missing, all fields missing
MissingFields == {{}, RequiredFields} \cup {{f} : f \in RequiredFields}

\* issue.js:43-144
IssueCertificate ==
  /\ Idle
  /\ Len(issued) < MaxIssue
  /\ \E present \in BOOLEAN, missing \in MissingFields,
        file \in IssueCarriers \cup {CorruptFile}, name \in IssuerNames,
        noiseDefense \in BOOLEAN, throws \in BOOLEAN :
       LET issuerId == IF "issuerId" \in missing THEN UndefinedString ELSE name
           r == issueCertificate(present, missing, file, issuerId, noiseDefense,
                                 throws, Len(issued), sha, keys.of, chain, ledger, disk)
       IN  /\ r.requests = <<>> => (file = CorruptFile /\ ~noiseDefense /\ ~throws)
           /\ throws => chain.wallet
           /\ ires' = [status |-> r.response.status, success |-> r.response.success,
                       payload |-> r.response.payload,
                       noiseDefense |-> r.response.noiseDefense,
                       calls |-> r.response.calls,
                       present |-> present, missing |-> missing]
           /\ sha' = r.sha
           /\ ledger' = r.ledger
           /\ disk' = r.disk
           /\ issued' = issued \o r.requests
  /\ UNCHANGED <<codec, embed, keys, chain, vres>>

\* what a forger who holds an issued file can put into its carrier instead:
\* the payload with other claimed digests, another reference or issuer, an
\* object of another shape, or a text that is no JSON
Forgeries(request) ==
  LET p == request.payload
      envelopes ==
        {[mode |-> "plain", data |-> q] :
           q \in {[p EXCEPT !.certificateHash = 0, !.combinedHash = 0],
                  [p EXCEPT !.transactionHash = FieldMax],
                  [p EXCEPT !.issuerId = <<66>>]}}
        \cup {[mode |-> "other"]}
      texts == {JSON_stringify(e) : e \in envelopes} \cup {<<ChPlain>>}
  IN  {[readable |-> TRUE,
        pixels |-> writeLSB(request.carrier.pixels, fullBinaryData(t))] :
         t \in texts}

\* the envelope issue.js:106 has embedData build for a request
IssuedEnvelope(request) ==
  buildPayload(request.payload,
               [noiseDefense |-> request.noiseDefense, decoyCount |-> 0], 0)

\* the colour channels embedData wrote for a request, in writing order
EmbeddedRegion(request) ==
  LET R == Len(fullBinaryData(JSON_stringify(IssuedEnvelope(request))))
      channels == 3 * pixelCount(request.carrier)
  IN  1..(IF R <= channels THEN R ELSE channels)

\* a file with the least-significant bit of its n-th colour channel flipped
FlipLSB(file, n) ==
  LET k == 4 * ((n - 1) \div 3) + ((n - 1) % 3) + 1
  IN  [file EXCEPT !.pixels[k] = IF @ % 2 = 0 THEN @ + 1 ELSE @ - 1]

\* an issued file after one bit of its embedded region was flipped
Tampered(request) == {FlipLSB(request.out, n) : n \in EmbeddedRegion(request)}

\* the files a verification request may upload
VerifyUploads ==
  IssueCarriers \cup {CorruptFile}
  \cup {issued[i].out : i \in {j \in 1..Len(issued) : issued[j].ok}}
  \cup UNION {Forgeries(issued[i]) : i \in {j \in 1..Len(issued) : issued[j].ok}}

\* verify.js:42-117 for one request: multer has stored the upload and the
\* handler runs its stages up to the response it builds; throws: the
\* contract call rejects, hashFails: generateHash rejects.  The handler
\* reads the upload (verify.js:53, :57) and writes no file.
VerifyRequest(present, file, throws, hashFails) ==
  LET reached == present /\ ~hashFails
  IN  /\ present \/ file = CorruptFile
      /\ hashFails => (present /\ file = CorruptFile)
      /\ throws => (reached /\ chain.contract /\ extractData(file) # Null)
      /\ vres' = [stage |-> "started",
                  response |-> tryVerifyCertificate(present, file, sha, keys.of, chain,
                                                    ledger, throws, hashFails),
                  present |-> present, upload |-> file, stored |-> file,
                  certificateHash |-> IF reached THEN generateHash(sha, file) ELSE 0,
                  embeddedData |-> IF reached THEN extractData(file) ELSE Null,
                  throws |-> throws, hashFails |-> hashFails]

\* verify.js:42-117
VerifyCertificate ==
  /\ Idle
  /\ \E present \in BOOLEAN, file \in VerifyUploads,
        throws \in BOOLEAN, hashFails \in BOOLEAN :
       VerifyRequest(present, file, throws, hashFails)
  /\ UNCHANGED <<codec, embed, keys, chain, ledger, sha, issued, disk, ires>>

\* verify.js:42-117 on an issued file with one embedded bit flipped
VerifyTampered ==
  /\ Idle
  /\ \E i \in {j \in 1..Len(issued) : issued[j].ok}, throws \in BOOLEAN :
       \E file \in Tampered(issued[i]) : VerifyRequest(TRUE, file, throws, FALSE)
  /\ UNCHANGED <<codec, embed, keys, chain, ledger, sha, issued, disk, ires>>

\* res.json / res.status(..).json of the verify handler: the response it
\* built is sent
SendVerification ==
  /\ vres.stage = "started"
  /\ vres.response.status # 0
  /\ vres' = [vres EXCEPT !.stage = "responded"]
  /\ UNCHANGED <<codec, embed, keys, chain, ledger, sha, issued, disk, ires>>

\* the first issuance of a server
FirstIssue == issued = <<>> /\ IssueCertificate

\* the handler returns: the request is over
Respond ==
  /\ ires.status # 0 \/ vres.stage = "responded"
  /\ ires' = NoResponse
  /\ vres' = NoVerification
  /\ UNCHANGED <<codec, embed, keys, chain, ledger, sha, issued, disk>>

(***************************************************************************)
(* Two embedData calls in one process.  A call runs up to its await of     *)
(* loadImage (stegoService.js:27) and is suspended; once the image is      *)
(* decoded it runs to its return without another await.  Date.now() is the *)
(* millisecond clock embed.now, which may or may not advance between two   *)
(* turns of the event loop.                                                *)
(***************************************************************************)
MaxClock == 2
Calls == {1, 2}

EmbedPayloads ==
  {PayloadOf(1, 2, 3, 4, <<65>>, 5), PayloadOf(6, 7, 8, 9, <<66>>, 5),
   PayloadOf(1, 2, 3, 4, <<65, 66>>, 5)}

NoCallYet == [pc |-> "idle", image |-> CorruptFile, data |-> NoData, path |-> <<>>]

EmbedStart ==
  embed = [now |-> 0, calls |-> [c \in Calls |-> NoCallYet], temp |-> <<>>]

\* stegoService.js:24-27: the call reads its input file and awaits loadImage
EmbedCall(c) ==
  /\ embed.calls[c].pc = "idle"
  /\ \E file \in IssueCarriers \cup {CorruptFile}, data \in EmbedPayloads :
       embed' = [embed EXCEPT !.calls[c] =
                   [pc |-> "decoding", image |-> file, data |-> data, path |-> <<>>]]
  /\ UNCHANGED <<codec, server>>

\* stegoService.js:27-94: loadImage settles and the call runs to its end,
\* writing its output under the name made from Date.now()
EmbedResume(c) ==
  /\ embed.calls[c].pc = "decoding"
  /\ LET call == embed.calls[c]
         r == embedData(call.image, call.data, NoOptions, 0)
         path == outputPath(<<"uploads/certificates", c>>, embed.now)
     IN  embed' = IF r.ok
                  THEN [embed EXCEPT !.calls[c].pc = "returned",
                                     !.calls[c].path = path,
                                     !.temp = writeFileSync(embed.temp, path, r.file)]
                  ELSE [embed EXCEPT !.calls[c].pc = "thrown"]
  /\ UNCHANGED <<codec, server>>

\* a millisecond passes
Tick ==
  /\ embed.now < MaxClock
  /\ embed' = [embed EXCEPT !.now = @ + 1]
  /\ UNCHANGED <<codec, server>>

EmbedNext == Tick \/ \E c \in Calls : EmbedCall(c) \/ EmbedResume(c)

EmbedInit ==
  /\ CodecStart
  /\ EmbedStart
  /\ ServerStart
  /\ chain = [wallet |-> FALSE, contract |-> FALSE]

SpecEmbed == EmbedInit /\ [][EmbedNext]_vars

Init == CodecStart /\ EmbedStart /\ ServerStart /\ chain \in ChainConfigs

Next ==
  \/ GenerateKeyPair
  \/ IssueCertificate
  \/ VerifyCertificate
  \/ SendVerification
  \/ Respond

Spec == Init /\ [][Next]_vars

CodecInit ==
  /\ CodecStart
  /\ EmbedStart
  /\ ServerStart
  /\ chain = [wallet |-> FALSE, contract |-> FALSE]

CodecNext == CodecEmbed \/ CodecCraft \/ CodecCraftRaw \/ CodecExtract

SpecCodec == CodecInit /\ [][CodecNext]_vars

\* one issuance, then verifications of the emitted file after a bit flip
TamperNext ==
  \/ GenerateKeyPair
  \/ FirstIssue
  \/ VerifyTampered
  \/ SendVerification
  \/ Respond

SpecTamper == Init /\ [][TamperNext]_vars

\* a handler that has reached its res.json sends, and the request ends
SpecLive == Spec /\ WF_vars(SendVerification) /\ WF_vars(Respond)

(***************************************************************************)
(* Properties.                                                             *)
(***************************************************************************)
Answered == vres.stage = "responded" /\ vres.present /\ vres.response.status = 200
Recovered == Answered /\ vres.response.hasEmbeddedData

\* the bits embedData has to write for an envelope
RequiredBits(envelope) == Len(fullBinaryData(JSON_stringify(envelope)))
Capacity(file) == 3 * pixelCount(file)

\* the entries of a noise envelope tagged "real"
RealEntries(envelope) ==
  {i \in 1..Len(envelope.entries) : envelope.entries[i].type = "real"}

\* C1: issuing in plain mode into a carrier with enough capacity and then
\* verifying the emitted file yields Valid with both checks true; verifying
\* the original upload yields Invalid, no embedded data found.
C1_EndToEnd ==
  \A i \in 1..Len(issued) :
    ( /\ Answered
      /\ issued[i].ok
      /\ ~issued[i].noiseDefense
      /\ RequiredBits([mode |-> "plain", data |-> issued[i].payload])
           <= Capacity(issued[i].carrier) )
    => /\ vres.upload = issued[i].out
            => /\ vres.response.valid
               /\ vres.response.signatureVerified
               /\ vres.response.blockchainVerified
       /\ vres.upload = issued[i].carrier
            => /\ ~vres.response.valid
               /\ ~vres.response.hasEmbeddedData

\* C2: whenever embedData embedded a payload into a carrier whose capacity is
\* at least the required bit count, in plain or in noise mode, extractData
\* of the emitted file returns exactly that payload.
C2_RoundTrip ==
  ( /\ codec.stage = "extracted"
    /\ codec.by = "embedData"
    /\ RequiredBits(codec.envelope) <= Capacity(codec.carrier) )
  => codec.result = [kind |-> "data", data |-> codec.data]

\* C3: a verification response reports valid exactly when the signature
\* check and the blockchain check both returned true.
C3_ValidIffBothChecks ==
  Answered =>
    (vres.response.valid <=>
       (vres.response.signatureVerified /\ vres.response.blockchainVerified))

C3_Witness ==
  /\ Recovered
  /\ vres.response.blockchainVerified
  /\ ~vres.response.signatureVerified
  /\ ~vres.response.valid

\* C4: when extraction yields no payload the response is invalid with both
\* check results false, says that no embedded data was found, and neither
\* verifyHash nor verifySignature was called.
C4_FailClosed ==
  (Answered /\ vres.embeddedData = Null) =>
    /\ ~vres.response.valid
    /\ ~vres.response.signatureVerified
    /\ ~vres.response.blockchainVerified
    /\ ~vres.response.hasEmbeddedData
    /\ vres.response.calls = <<"generateHash", "extractData">>
    /\ vres.response.verifyHashArgs = NoCall
    /\ vres.response.verifySignatureArgs = NoCall

\* a carrier without a marker (NotFound), or with a frame that is no JSON (Malformed)
C4_Witness ==
  /\ Answered
  /\ vres.embeddedData = Null
  /\ vres.upload.readable
  /\ markerEnds(pixelBits(vres.upload.pixels)) # {}

\* C5: both checks receive the digest recomputed from the uploaded bytes,
\* and the outcome does not change when the digests claimed inside the
\* recovered payload are replaced by any others.
\* every digest the table gives out, and none
ClaimedDigests == 0..Len(sha)

WithClaimed(embeddedData, h1, h2) ==
  IF embeddedData.kind = "data"
  THEN [embeddedData EXCEPT !.data.certificateHash = h1, !.data.combinedHash = h2]
  ELSE embeddedData

Outcome(response) ==
  <<response.valid, response.signatureVerified, response.blockchainVerified>>

C5_NonInterference ==
  Recovered =>
    /\ vres.certificateHash = generateHash(sha, vres.upload)
    /\ vres.response.verifyHashArgs[2] = vres.certificateHash
    /\ vres.response.verifySignatureArgs[1] = vres.certificateHash
    /\ \A h1 \in ClaimedDigests, h2 \in ClaimedDigests :
         Outcome(verdict(vres.certificateHash,
                         WithClaimed(vres.embeddedData, h1, h2),
                         keys.of, chain, ledger, vres.throws))
           = Outcome(vres.response)

\* a recovered payload whose claimed digest is not the recomputed one
C5_Witness ==
  /\ Recovered
  /\ vres.embeddedData.kind = "data"
  /\ vres.embeddedData.data.certificateHash # vres.certificateHash
  /\ vres.embeddedData.data.signature
       = vres.embeddedData.data.certificateHash * SigBase + keys.of[<<65>>]

\* C6: the blockchain check is true only if the anchor store holds, under
\* the recovered transaction hash, the combined digest of the recomputed
\* file digest and the recovered signature.
AnchorStore == ledger.txData \cup ledger.registry

C6_AnchorCheck ==
  (Recovered /\ vres.response.blockchainVerified) =>
    LET signature == fieldOf(vres.embeddedData, "signature")
        combined == CatContent(vres.certificateHash, signature)
    IN  /\ \E i \in 1..Len(sha) : sha[i] = combined
        /\ <<fieldOf(vres.embeddedData, "transactionHash"),
             generateCombinedHash(sha, vres.certificateHash, signature)>>
             \in AnchorStore

\* C7: a failed issuer-key lookup makes the signature result false, a failed,
\* throwing, unconfigured or absent anchor-store read makes the blockchain
\* result false, and in both cases the outcome is not valid.
C7_NeverDefaultsToValid ==
  Recovered =>
    LET issuerId == fieldOf(vres.embeddedData, "issuerId")
        transactionHash == fieldOf(vres.embeddedData, "transactionHash")
        keyLookupFails == issuerId \notin DOMAIN keys.of \/ keys.of[issuerId] = NoKey
        anchorReadFails ==
          \/ ~chain.contract
          \/ vres.throws
          \/ \A entry \in AnchorStore : entry[1] # transactionHash
    IN  /\ keyLookupFails =>
             (~vres.response.signatureVerified /\ ~vres.response.valid)
        /\ anchorReadFails =>
             (~vres.response.blockchainVerified /\ ~vres.response.valid)

\* C8: embedData succeeds when 32 + 8L + 16 <= 3 x pixelCount and otherwise
\* fails without emitting a file.
C8_CapacityBoundary ==
  (codec.stage # "start" /\ codec.by = "embedData") =>
    LET R == 32 + 8 * Len(JSON_stringify(codec.envelope)) + 16
    IN  IF R <= Capacity(codec.carrier) THEN codec.ok
        ELSE ~codec.ok /\ codec.out = CorruptFile

\* C9: when the extracted envelope is in noise mode, extractData returns a
\* payload only if exactly one entry is tagged "real".
C9_AmbiguousRejected ==
  codec.stage = "extracted" =>
    LET extracted == decodeEnvelope(codec.out)
    IN  (extracted.ok /\ extracted.val.mode = "noise" /\ codec.result # Null)
          => Cardinality(RealEntries(extracted.val)) = 1

\* C10: extraction of a noise envelope with 0, 1, 5 or 20 decoys and a
\* single entry tagged "real", at whatever index, returns that entry's data.
C10_DecoyInvisibility ==
  codec.stage = "extracted" =>
    LET extracted == decodeEnvelope(codec.out)
    IN  ( /\ extracted.ok
          /\ extracted.val.mode = "noise"
          /\ Cardinality(RealEntries(extracted.val)) = 1
          /\ Len(extracted.val.entries) - 1 \in DecoyCounts )
        => \E i \in RealEntries(extracted.val) :
             codec.result = [kind |-> "data", data |-> extracted.val.entries[i].data]

\* twenty decoys read back, the real entry last
C10_Witness ==
  /\ codec.stage = "extracted"
  /\ codec.envelope.mode = "noise"
  /\ Len(codec.envelope.entries) = 21
  /\ RealEntries(codec.envelope) = {21}
  /\ decodeEnvelope(codec.out) = [ok |-> TRUE, val |-> codec.envelope]
  /\ codec.result = [kind |-> "data", data |-> codec.envelope.entries[21].data]

\* C11: verifying an issued file after one least-significant bit of its
\* embedded region (length prefix, data bits or end marker) was flipped
\* gives no payload, or a payload whose signature check fails; never valid.
TamperedUpload ==
  \E i \in 1..Len(issued) :
    /\ issued[i].ok
    /\ vres.upload.readable
    /\ Len(vres.upload.pixels) = Len(issued[i].out.pixels)
    /\ LET differ == {k \in 1..Len(vres.upload.pixels) :
                        vres.upload.pixels[k] # issued[i].out.pixels[k]}
       IN  /\ Cardinality(differ) = 1
           /\ \A k \in differ :
                /\ k % 4 # 0
                /\ 3 * ((k - 1) \div 4) + ((k - 1) % 4) + 1 \in EmbeddedRegion(issued[i])
                /\ vres.upload.pixels[k] \div 2 = issued[i].out.pixels[k] \div 2

C11_TamperSensitivity ==
  (Answered /\ TamperedUpload) =>
    /\ ~vres.response.valid
    /\ \/ vres.embeddedData = Null /\ ~vres.response.hasEmbeddedData
       \/ vres.response.hasEmbeddedData /\ ~vres.response.signatureVerified

\* a flipped data bit that still reads back as a payload, another one
C11_Witness ==
  /\ Answered
  /\ TamperedUpload
  /\ vres.embeddedData.kind = "data"
  /\ \E i \in 1..Len(issued) : vres.embeddedData.data # issued[i].payload
  /\ ~vres.response.signatureVerified

\* C12: the outcome for an upload that cannot be read or decoded is a fault,
\* never the outcome reported for a carrier that decodes and holds no data.
C12_FaultedDistinct ==
  (vres.stage = "responded" /\ vres.present /\ ~vres.upload.readable) =>
    \A file \in IssueCarriers :
      extractData(file) = Null =>
        vres.response # verifyCertificate(TRUE, file, sha, keys.of, chain, ledger, FALSE)

\* the envelope embedData built in this call
Built == codec.stage # "start" /\ codec.by = "embedData"

\* C13: in noise mode with N >= 1 decoys, for every index i in 0..N some
\* outcome of the builder's random choices puts the real entry at index i.
C13_RandomPlacement ==
  (Built /\ codec.options.noiseDefense /\ Len(codec.envelope.entries) >= 2) =>
    \A i \in 0..(Len(codec.envelope.entries) - 1) :
      \E seed \in Seeds :
        buildPayload(codec.data, codec.options, seed).entries[i + 1].type = "real"

\* the members of an entry, nested ones by their path, with the length of
\* each value's text
Shape(e) ==
  IF e.type = "real"
  THEN {<<"type">>} \cup {<<"data", f>> : f \in DOMAIN e.data}
  ELSE {<<f>> : f \in DOMAIN e}

ValueLength(e, member) ==
  IF member = <<"type">> THEN 0
  ELSE IF e.type = "real"
       THEN (IF member[2] = "issuerId" THEN Len(e.data.issuerId) ELSE 1)
       ELSE 1

\* C14: in every noise envelope each decoy has the field names, the nesting
\* and the per-field lengths of the real entry; only the tag differs.
C14_DecoyIndistinguishable ==
  (Built /\ codec.envelope.mode = "noise") =>
    \A i \in 1..Len(codec.envelope.entries), j \in 1..Len(codec.envelope.entries) :
      LET a == codec.envelope.entries[i]
          b == codec.envelope.entries[j]
      IN  /\ Shape(a) = Shape(b)
          /\ \A member \in Shape(a) \cap Shape(b) :
               ValueLength(a, member) = ValueLength(b, member)

\* C15: with noise defense and a configured decoy count N >= 0 the envelope
\* has N + 1 entries, one tagged "real" and N tagged "decoy"; without noise
\* defense it is {mode: "plain", data}.
C15_EnvelopeComposition ==
  Built =>
    IF codec.options.noiseDefense
    THEN /\ codec.envelope.mode = "noise"
         /\ Len(codec.envelope.entries) = codec.options.decoyCount + 1
         /\ Cardinality(RealEntries(codec.envelope)) = 1
         /\ Cardinality({i \in 1..Len(codec.envelope.entries) :
                           codec.envelope.entries[i].type = "decoy"})
              = codec.options.decoyCount
    ELSE codec.envelope = [mode |-> "plain", data |-> codec.data]

\* the position in writing order of the k-th entry of the pixel buffer, 0
\* for an alpha entry
ChannelIndex(k) ==
  IF k % 4 = 0 THEN 0 ELSE 3 * ((k - 1) \div 4) + ((k - 1) % 4) + 1

\* C16: embedData changes at most the least-significant bit of the colour
\* channels the R frame bits go to; alpha values, the seven high bits of
\* every colour channel and every channel after the R-th are unchanged.
C16_FrameEffect ==
  (Built /\ codec.ok) =>
    LET R == RequiredBits(codec.envelope)
        before == codec.carrier.pixels
        after == codec.out.pixels
    IN  /\ Len(after) = Len(before)
        /\ \A k \in 1..Len(before) :
             /\ after[k] \div 2 = before[k] \div 2
             /\ (ChannelIndex(k) = 0 \/ ChannelIndex(k) > R) => after[k] = before[k]

\* some written bit changed its channel, and pixels lie beyond the frame
C16_Witness ==
  /\ Built
  /\ codec.ok
  /\ RequiredBits(codec.envelope) + 3 <= Capacity(codec.carrier)
  /\ \E k \in 1..Len(codec.carrier.pixels) : codec.out.pixels[k] # codec.carrier.pixels[k]
  /\ \E k \in 1..Len(codec.carrier.pixels) :
       /\ ChannelIndex(k) \in 1..RequiredBits(codec.envelope)
       /\ codec.out.pixels[k] = codec.carrier.pixels[k]

\* no stage of a handler ran twice
NoRetry(calls) ==
  \A i \in 1..Len(calls), j \in 1..Len(calls) : calls[i] = calls[j] => i = j

\* C17: embedData writes its result to a file other than the one it read,
\* whose bytes stay as uploaded; a verification leaves the uploaded file as
\* it was and runs no stage twice.
C17_CarrierNeverMutated ==
  /\ \A i \in 1..Len(issued) :
       /\ issued[i].path \in DOMAIN disk
       /\ disk[issued[i].path] = issued[i].carrier
       /\ issued[i].ok =>
            /\ issued[i].outputPath # issued[i].path
            /\ issued[i].outputPath \in DOMAIN disk
  /\ (vres.stage = "responded" /\ vres.present) =>
       /\ vres.stored = vres.upload
       /\ NoRetry(vres.response.calls)

\* an issuance whose output differs from the upload, and its output verified
C17_Witness ==
  /\ \E i \in 1..Len(issued) :
       /\ issued[i].ok
       /\ issued[i].out # issued[i].carrier
       /\ disk[issued[i].outputPath] = issued[i].out
       /\ vres.upload = issued[i].out
  /\ Recovered

\* a request that lacks the file or a required field
Incomplete(response) == ~response.present \/ response.missing # {}

\* C20: a request without the certificate file or without a required field
\* is answered with an error at once: no digest, no signature, no anchor
\* write and no embedding happen.
C20_CompositionError ==
  [][(ires.status = 0 /\ ires'.status # 0 /\ Incomplete(ires')) =>
       /\ ires'.status = 400
       /\ ~ires'.success
       /\ ires'.calls = <<>>
       /\ UNCHANGED <<sha, ledger, issued, disk, keys>>]_vars

\* a request with its file and all fields but recipientName
C20_Witness ==
  /\ ires.status = 400
  /\ ires.present
  /\ ires.missing = {"recipientName"}
  /\ ires.calls = <<>>

\* C18: a verification runs extraction, then the digest of the uploaded
\* bytes, then the signature check, then the anchor check.
C18_StageOrdering ==
  LET order == <<"extractData", "generateHash", "verifySignature", "verifyHash">>
  IN  (vres.stage = "responded" /\ vres.present) =>
        /\ Len(vres.response.calls) <= Len(order)
        /\ vres.response.calls = SubSeq(order, 1, Len(vres.response.calls))

\* C19: every verification request that starts gets a response, and the
\* response it got is not followed by another one for the same request.
C19_OneTerminalResponse ==
  /\ (vres.stage = "started") ~> (vres.stage = "responded")
  /\ [][vres.stage = "responded" => vres' = NoVerification]_vars

\* a failure of the digest computation answered with 500
C19_Witness ==
  /\ vres.stage = "responded"
  /\ vres.hashFails
  /\ vres.response.status = 500

\* the UTF-8 bytes of a text of code units below 2048
RECURSIVE Utf8Bytes(_)
Utf8Bytes(str) ==
  IF str = <<>> THEN <<>>
  ELSE LET c == Head(str)
       IN  (IF c < 128 THEN <<c>> ELSE <<192 + (c \div 64), 128 + (c % 64)>>)
           \o Utf8Bytes(Tail(str))

\* the width-bit big-endian encoding of num
RECURSIVE BigEndian(_, _)
BigEndian(num, width) ==
  IF width = 0 THEN <<>> ELSE Append(BigEndian(num \div 2, width - 1), num % 2)

\* the bits of a byte sequence, most significant bit of each byte first
ByteBits(bytes) ==
  [n \in 1..(8 * Len(bytes)) |->
     (bytes[(n - 1) \div 8 + 1] \div (2 ^ (7 - ((n - 1) % 8)))) % 2]

\* C21: after a successful embedData into a carrier with room for the
\* frame, the least-significant bits of the first R = 32 + 8L + 16 colour
\* channels are the 32-bit big-endian L, the 8L bits of the envelope's UTF-8
\* bytes and the end marker, L being the UTF-8 byte length of the envelope.
C21_FrameLayout ==
  LET bytes == Utf8Bytes(JSON_stringify(codec.envelope))
      L == Len(bytes)
      R == 32 + 8 * L + 16
  IN  (Built /\ codec.ok /\ R <= Capacity(codec.carrier)) =>
        SubSeq(pixelBits(codec.out.pixels), 1, R)
          = BigEndian(L, 32) \o ByteBits(bytes) \o endMarker

\* C22: the scan compares the last 16 bits with the end marker only once at
\* least 48 bits are accumulated, so it never stops on a marker that
\* completes within the first 47 bits.
C22_MarkerThreshold ==
  (codec.stage = "extracted" /\ codec.scan.endMarkerFound) => codec.scan.read >= 48

\* C23: when fewer than 32 + 8L bits are left after the end marker was
\* removed, L being the value of the first 32 bits, extraction returns no
\* payload.
C23_LengthPrefixCheck ==
  (codec.stage = "extracted" /\ codec.scan.endMarkerFound) =>
    LET remaining == codec.scan.read - 16
        L == binaryToNumber(SubSeq(pixelBits(codec.out.pixels), 1, 32))
    IN  (remaining >= 32 /\ remaining < 32 + 8 * L) => codec.result = Null

\* C24: a scan that finds no end marker in the colour channels returns no
\* payload after reading each of the 3 x pixelCount channel bits once; a
\* scan that finds one stops at the first position where it is complete.
C24_NotFound ==
  codec.stage = "extracted" =>
    LET bits == pixelBits(codec.out.pixels)
        MarkerAt(n) == n >= 16 /\ SubSeq(bits, n - 15, n) = endMarker
    IN  /\ codec.scan.read <= 3 * pixelCount(codec.out)
        /\ IF \E n \in 1..Len(bits) : MarkerAt(n)
           THEN /\ codec.scan.endMarkerFound
                /\ MarkerAt(codec.scan.read)
                /\ \A n \in 1..(codec.scan.read - 1) : ~MarkerAt(n)
           ELSE /\ ~codec.scan.endMarkerFound
                /\ codec.scan.read = 3 * pixelCount(codec.out)
                /\ codec.result = Null

\* an untouched carrier read to its last channel without a marker
C24_Witness ==
  /\ codec.stage = "extracted"
  /\ codec.by = "raw"
  /\ codec.out = codec.carrier
  /\ ~codec.scan.endMarkerFound
  /\ codec.scan.read = 3 * pixelCount(codec.out)
  /\ codec.result = Null

\* C26: for every envelope embedData embeds in full, the scan of the
\* emitted file first matches the end marker at bit R, the last bit of the
\* frame it wrote, and at no earlier position.
C26_SentinelUnique ==
  ( /\ codec.stage = "extracted"
    /\ codec.by = "embedData"
    /\ RequiredBits(codec.envelope) <= Capacity(codec.carrier) )
  => /\ codec.scan.endMarkerFound
     /\ codec.scan.read = RequiredBits(codec.envelope)

\* C27: extractData returns a payload only from an envelope of mode "plain"
\* (its data) or of mode "noise" (the data of an entry tagged "real"); a
\* decoded value of any other shape is not returned.
C27_OnlyEnvelopePayloads ==
  (codec.stage = "extracted" /\ codec.result # Null) =>
    LET extracted == decodeEnvelope(codec.out)
    IN  /\ extracted.ok
        /\ \/ /\ extracted.val.mode = "plain"
              /\ codec.result = [kind |-> "data", data |-> extracted.val.data]
           \/ /\ extracted.val.mode = "noise"
              /\ \E i \in RealEntries(extracted.val) :
                   codec.result = [kind |-> "data", data |-> extracted.val.entries[i].data]

\* the stages a handler called
Called(response) == {response.calls[i] : i \in 1..Len(response.calls)}

\* C25: whenever extraction recovered a payload, the signature check and
\* the anchor check were both run, and the response reports the result of
\* each, whatever the other returned.
C25_BothChecksReported ==
  Recovered =>
    /\ {"verifyHash", "verifySignature"} \subseteq Called(vres.response)
    /\ vres.response.verifyHashArgs # NoCall
    /\ vres.response.verifySignatureArgs # NoCall
    /\ vres.response.blockchainVerified
         = verifyHash(fieldOf(vres.embeddedData, "transactionHash"),
                      vres.certificateHash, chain, ledger, vres.throws)
    /\ vres.response.signatureVerified
         = verifySignature(vres.certificateHash,
                           fieldOf(vres.embeddedData, "signature"),
                           fieldOf(vres.embeddedData, "issuerId"), keys.of)

\* the anchor check, run first, returned false and the signature check ran
C25_Witness ==
  /\ Recovered
  /\ vres.embeddedData.kind = "data"
  /\ ~vres.response.blockchainVerified
  /\ "verifySignature" \in Called(vres.response)

\* C29: a signature made by signData for an issuance still verifies against
\* the same data and issuer after any later key operation.
C29_SignatureStability ==
  \A i \in 1..Len(issued) :
    verifySignature(issued[i].payload.certificateHash, issued[i].payload.signature,
                    issued[i].payload.issuerId, keys.of)

\* C30: the anchor store holds a value only for issuances that completed;
\* a request that ended in an embedding error left none.
C30_NoAnchorAfterAbort ==
  \A entry \in AnchorStore :
    \E i \in 1..Len(issued) :
      /\ issued[i].ok
      /\ issued[i].payload.transactionHash = entry[1]

\* C28: whatever the interleaving of two embedData calls, the calls that
\* returned wrote to different paths and the file at each returned path
\* holds that call's own payload.
C28_ConcurrentIndependent ==
  \A c \in Calls :
    embed.calls[c].pc = "returned" =>
      /\ extractData(embed.temp[embed.calls[c].path])
           = [kind |-> "data", data |-> embed.calls[c].data]
      /\ \A other \in Calls \ {c} :
           embed.calls[other].pc = "returned" =>
             embed.calls[other].path # embed.calls[c].path

====
